---- MODULE Spec2Model ----
(***************************************************************************)
(* Model of the comparison viewer of windoosh: CompareSlider.svelte (the   *)
(* transform, the reveal divider, the interaction booleans, the native     *)
(* drag-and-drop gateway and the two canvas loaders), the stores of        *)
(* imageStore.ts and the load / process pipeline of ControlPanel.svelte.   *)
(*                                                                         *)
(* JavaScript numbers are modelled as exact rationals <<n, d>> in lowest   *)
(* terms with d > 0; <<1, 0>>, <<-1, 0>> and <<0, 0>> stand for +Infinity, *)
(* -Infinity and NaN, which a division by a zero container width yields.   *)
(***************************************************************************)
EXTENDS Integers, Sequences, FiniteSets, TLC

----------------------------------------------------------------------------
(* Bounds of the model *)

\* number of wheel events the viewer handles
MaxWheels == 1
\* largest magnitude of a translate component, in pixels
MaxT == 100
\* number of paths one drop notification may carry
MaxDropped == 2
\* number of invoke calls that may await their answer together
MaxInFlight == 2
\* the calls of triggerProcess in one run
MaxEdits == 3

----------------------------------------------------------------------------
(* Numbers *)

Abs(n) == IF n < 0 THEN -n ELSE n

RECURSIVE GCD(_, _)
GCD(a, b) == IF b = 0 THEN a ELSE GCD(b, a % b)

Norm(n, d) ==
  LET g == GCD(Abs(n), d) IN <<n \div g, d \div g>>

R(n) == <<n, 1>>
NaN == <<0, 0>>
PosInf == <<1, 0>>
NegInf == <<-1, 0>>

IsNaN(a) == a = NaN
IsFinite(a) == a[2] > 0
Sign(a) == IF a[1] > 0 THEN 1 ELSE IF a[1] < 0 THEN -1 ELSE 0

\* a + b and a - b as JavaScript computes them (Infinity - Infinity is NaN)
Add(a, b) ==
  IF IsNaN(a) \/ IsNaN(b) THEN NaN
  ELSE IF ~IsFinite(a) THEN (IF IsFinite(b) \/ b = a THEN a ELSE NaN)
  ELSE IF ~IsFinite(b) THEN b
  ELSE LET g == GCD(a[2], b[2])
       IN Norm(a[1] * (b[2] \div g) + b[1] * (a[2] \div g),
               (a[2] \div g) * b[2])
Sub(a, b) == Add(a, <<-b[1], b[2]>>)

\* a * b as JavaScript computes it (Infinity * 0 is NaN)
Mul(a, b) ==
  IF IsNaN(a) \/ IsNaN(b) THEN NaN
  ELSE IF ~IsFinite(a) \/ ~IsFinite(b)
       THEN (IF Sign(a) * Sign(b) = 0 THEN NaN
             ELSE IF Sign(a) * Sign(b) > 0 THEN PosInf ELSE NegInf)
  ELSE LET g1 == GCD(Abs(a[1]), b[2])
           g2 == GCD(Abs(b[1]), a[2])
       IN <<(a[1] \div g1) * (b[1] \div g2), (a[2] \div g2) * (b[2] \div g1)>>

\* a / b on finite numbers as JavaScript computes it (x / 0 is +-Infinity,
\* 0 / 0 is NaN; the divisors of the program are never negative zero)
Div(a, b) ==
  IF b[1] = 0
  THEN (IF a[1] > 0 THEN PosInf ELSE IF a[1] < 0 THEN NegInf ELSE NaN)
  ELSE IF b[1] > 0 THEN Mul(a, <<b[2], b[1]>>)
  ELSE Mul(a, <<-b[2], -b[1]>>)

\* a < b and a <= b; every comparison with NaN is false
Lt(a, b) ==
  /\ ~IsNaN(a)
  /\ ~IsNaN(b)
  /\ IF ~IsFinite(a) /\ ~IsFinite(b) THEN a[1] < b[1]
     ELSE a[1] * b[2] < b[1] * a[2]
Le(a, b) == ~IsNaN(a) /\ ~IsNaN(b) /\ ~Lt(b, a)

\* Math.max and Math.min: NaN if either argument is NaN
MathMax(a, b) == IF IsNaN(a) \/ IsNaN(b) THEN NaN ELSE IF Lt(a, b) THEN b ELSE a
MathMin(a, b) == IF IsNaN(a) \/ IsNaN(b) THEN NaN ELSE IF Lt(b, a) THEN b ELSE a

----------------------------------------------------------------------------
(* Program constants *)

\* handleWheel: zoomIntensity, and the two clamp bounds of newScale
zoomIntensity == <<1, 10>>
MinScale == <<1, 10>>
MaxScale == <<50, 1>>

\* the characters of the paths and String.prototype.toLowerCase on them
Upper == {"P", "N", "G", "T", "I", "F", "J"}
LowerOf(c) ==
  CASE c = "P" -> "p" [] c = "N" -> "n" [] c = "G" -> "g" [] c = "T" -> "t"
    [] c = "I" -> "i" [] c = "F" -> "f" [] c = "J" -> "j" [] OTHER -> c
toLowerCase(s) == [i \in 1..Len(s) |-> LowerOf(s[i])]

endsWith(s, ext) ==
  /\ Len(ext) <= Len(s)
  /\ \A i \in 1..Len(ext) : s[Len(s) - Len(ext) + i] = ext[i]

validExtensions ==
  << <<".", "p", "n", "g">>, <<".", "j", "p", "g">>,
     <<".", "j", "p", "e", "g">>, <<".", "w", "e", "b", "p">>,
     <<".", "g", "i", "f">>, <<".", "b", "m", "p">> >>

\* isValidImagePath comparing the path as typed
isValidImagePathCaseSensitive(path) ==
  \E k \in 1..Len(validExtensions) : endsWith(path, validExtensions[k])

isValidImagePath(path) ==
  LET lower == toLowerCase(path)
  IN \E k \in 1..Len(validExtensions) : endsWith(lower, validExtensions[k])

----------------------------------------------------------------------------
(* Inputs *)

\* the paths a drop notification may carry
PathA == <<"a", ".", "p", "n", "g">>
PathPhotoPNG == <<"p", "h", "o", "t", "o", ".", "P", "N", "G">>
PathPhotoTIFF == <<"p", "h", "o", "t", "o", ".", "T", "I", "F", "F">>
PathInner == <<"a", ".", "p", "n", "g", ".", "x", "p", "n", "g">>
Paths == {PathA, PathPhotoPNG, PathPhotoTIFF, PathInner}
NoFile == <<>>

\* the images behind the loadable paths, and their native pixel sizes
NoImage == 0
Images == {1, 2}
ImageOf(path) == IF path = PathA THEN 1 ELSE 2
ImgWidth(i) == IF i = 1 THEN 640 ELSE 800
ImgHeight(i) == IF i = 1 THEN 480 ELSE 600

\* container.getBoundingClientRect(): the viewer fills the workspace, which
\* starts at the window's top-left corner; its width is the window's width
\* less the control panel, and is zero once the window is that narrow
Rects800 == [left |-> 0, top |-> 0, width |-> 800]
Rects == {Rects800, [left |-> 0, top |-> 0, width |-> 0]}
\* pointer positions <<clientX, clientY>> over the container, and anywhere
\* in the window or dragged beyond it
InsidePoints == {<<0, 0>>, <<100, 50>>}
WindowPoints == InsidePoints \cup {<<-100, -50>>, <<900, 450>>}
\* the sign of WheelEvent.deltaY
DeltaYs == {-1, 1}

\* the value of debounceTimer before the first setTimeout
NoTimer == 0

\* the delay of the debounce, 400 ms, in steps of 100 ms
DebounceDelay == 4

----------------------------------------------------------------------------
(* State *)

VARIABLES
  \* CompareSlider.svelte
  sliderPosition, scale, translateX, translateY,
  isDraggingSlider, isPanning,
  panStartX, panStartY, panStartTranslateX, panStartTranslateY,
  isDragOver, imageWidth, imageHeight, canvasOriginal, canvasOptimized,
  \* imageStore.ts
  originalImageInfo, optimizationResult, isLoading, isProcessing, droppedFile,
  \* the invoke calls awaiting their answer: load_image by path,
  \* process_image by request, and the two pixel-buffer fetches by image
  loads, procs, origFetches, procFetches,
  \* the open-file dialogs awaiting the user's choice
  dialogs,
  \* ControlPanel.svelte: the settings modal, the handle kept in
  \* debounceTimer, the timeouts pending with the time left to each, and the
  \* number of calls of triggerProcess
  showSettings, debounceTimer, timers, edits,
  \* the handler that ran last, and the number of wheel events handled
  last, wheels

viewVars == <<sliderPosition, scale, translateX, translateY>>
modeVars == <<isDraggingSlider, isPanning>>
panVars == <<panStartX, panStartY, panStartTranslateX, panStartTranslateY>>
canvasVars == <<imageWidth, imageHeight, canvasOriginal, canvasOptimized>>
storeVars == <<originalImageInfo, optimizationResult, isLoading, isProcessing,
               droppedFile>>
flightVars == <<loads, procs, origFetches, procFetches>>
pipeVars == <<isDragOver, canvasVars, storeVars, flightVars>>
panelVars == <<showSettings, debounceTimer, timers, edits>>
vars == <<viewVars, modeVars, panVars, pipeVars, dialogs, panelVars, last,
          wheels>>

hasOriginal == originalImageInfo # NoImage
hasOptimized == optimizationResult # NoImage

\* a translate component the model keeps
InBounds(t) == Abs(t[1]) <= MaxT * t[2]

----------------------------------------------------------------------------
(* CompareSlider.svelte: divider, pan, zoom, reset *)

\* updateSliderPosition measuring from the window's edge
updateSliderPositionFromWindow(clientX, rect) ==
  MathMax(R(0), MathMin(R(100), Mul(Div(R(clientX), R(rect.width)), R(100))))

\* updateSliderPosition: the new sliderPosition
updateSliderPosition(clientX, rect) ==
  LET x == Sub(R(clientX), R(rect.left))
  IN MathMax(R(0), MathMin(R(100), Mul(Div(x, R(rect.width)), R(100))))

\* resetView leaving the divider where it is
resetViewKeepsSlider ==
  /\ scale' = R(1)
  /\ translateX' = R(0)
  /\ translateY' = R(0)
  /\ UNCHANGED sliderPosition

resetView ==
  /\ scale' = R(1)
  /\ translateX' = R(0)
  /\ translateY' = R(0)
  /\ sliderPosition' = R(50)

handleMouseDown(p, onHandle, rect) ==
  /\ droppedFile = NoFile
  /\ rect.width > 0
  /\ onHandle => hasOriginal
  /\ IF onHandle
     THEN /\ isDraggingSlider' = TRUE
          /\ sliderPosition' = updateSliderPosition(p[1], rect)
          /\ UNCHANGED <<isPanning, panVars>>
     ELSE IF hasOriginal /\ hasOptimized
     THEN /\ isPanning' = TRUE
          /\ panStartX' = p[1]
          /\ panStartY' = p[2]
          /\ panStartTranslateX' = translateX
          /\ panStartTranslateY' = translateY
          /\ UNCHANGED <<isDraggingSlider, sliderPosition>>
     ELSE UNCHANGED <<isDraggingSlider, isPanning, panVars, sliderPosition>>
  /\ last' = "handleMouseDown"
  /\ UNCHANGED panelVars
  /\ UNCHANGED <<wheels, dialogs>>
  /\ UNCHANGED <<scale, translateX, translateY, pipeVars>>

\* handleMouseMove with the pan displacement taken in content units
handleMouseMoveScaled(p, rect) ==
  /\ droppedFile = NoFile
  /\ IF isDraggingSlider
     THEN /\ sliderPosition' = updateSliderPosition(p[1], rect)
          /\ UNCHANGED <<translateX, translateY>>
     ELSE IF isPanning
     THEN /\ translateX' = Add(panStartTranslateX,
                               Div(R(p[1] - panStartX), scale))
          /\ translateY' = Add(panStartTranslateY,
                               Div(R(p[2] - panStartY), scale))
          /\ InBounds(translateX') /\ InBounds(translateY')
          /\ UNCHANGED sliderPosition
     ELSE UNCHANGED <<sliderPosition, translateX, translateY>>
  /\ last' = "handleMouseMove"
  /\ UNCHANGED panelVars
  /\ UNCHANGED <<wheels, dialogs>>
  /\ UNCHANGED <<scale, modeVars, panVars, pipeVars>>

handleMouseMove(p, rect) ==
  /\ droppedFile = NoFile
  /\ IF isDraggingSlider
     THEN /\ sliderPosition' = updateSliderPosition(p[1], rect)
          /\ UNCHANGED <<translateX, translateY>>
     ELSE IF isPanning
     THEN /\ translateX' = Add(panStartTranslateX, R(p[1] - panStartX))
          /\ translateY' = Add(panStartTranslateY, R(p[2] - panStartY))
          /\ InBounds(translateX') /\ InBounds(translateY')
          /\ UNCHANGED sliderPosition
     ELSE UNCHANGED <<sliderPosition, translateX, translateY>>
  /\ last' = "handleMouseMove"
  /\ UNCHANGED panelVars
  /\ UNCHANGED <<wheels, dialogs>>
  /\ UNCHANGED <<scale, modeVars, panVars, pipeVars>>

\* handleMouseUp ending the divider drag only
handleMouseUpKeepsPan ==
  /\ droppedFile = NoFile
  /\ isDraggingSlider' = FALSE
  /\ last' = "handleMouseUp"
  /\ UNCHANGED panelVars
  /\ UNCHANGED <<wheels, dialogs>>
  /\ UNCHANGED <<isPanning, viewVars, panVars, pipeVars>>

handleMouseUp ==
  /\ droppedFile = NoFile
  /\ isDraggingSlider' = FALSE
  /\ isPanning' = FALSE
  /\ last' = "handleMouseUp"
  /\ UNCHANGED panelVars
  /\ UNCHANGED <<wheels, dialogs>>
  /\ UNCHANGED <<viewVars, panVars, pipeVars>>

\* newScaleOf with a step of fixed size
newScaleAdditive(s, deltaY) ==
  LET delta == IF deltaY < 0 THEN R(1) ELSE R(-1)
      newScale == Add(s, Mul(delta, zoomIntensity))
  IN MathMax(MinScale, MathMin(newScale, MaxScale))

\* newScaleOf without the clamp
newScaleUnclamped(s, deltaY) ==
  LET delta == IF deltaY < 0 THEN R(1) ELSE R(-1)
  IN Add(s, Mul(Mul(delta, zoomIntensity), s))

\* handleWheel: the clamped newScale
newScaleOf(s, deltaY) ==
  LET delta == IF deltaY < 0 THEN R(1) ELSE R(-1)
      newScale == Add(s, Mul(Mul(delta, zoomIntensity), s))
  IN MathMax(MinScale, MathMin(newScale, MaxScale))

\* newTranslateOf taking the screen offset for the content offset
newTranslateUndivided(mouse, translate, s, newScale) ==
  Sub(mouse, Mul(Sub(mouse, translate), newScale))

\* handleWheel: the translate that keeps the content under the pointer
newTranslateOf(mouse, translate, s, newScale) ==
  LET contentMouse == Div(Sub(mouse, translate), s)
  IN Sub(mouse, Mul(contentMouse, newScale))

\* handleWheel without its early return on a missing original
handleWheelWithoutImage(p, deltaY, rect) ==
  /\ droppedFile = NoFile
  /\ rect.width > 0
  /\ LET mouseX == Sub(R(p[1]), R(rect.left))
         mouseY == Sub(R(p[2]), R(rect.top))
         newScale == newScaleOf(scale, deltaY)
     IN /\ translateX' = newTranslateOf(mouseX, translateX, scale, newScale)
        /\ translateY' = newTranslateOf(mouseY, translateY, scale, newScale)
        /\ scale' = newScale
  /\ InBounds(translateX') /\ InBounds(translateY')
  /\ wheels < MaxWheels
  /\ wheels' = wheels + 1
  /\ last' = "handleWheel"
  /\ UNCHANGED panelVars
  /\ UNCHANGED dialogs
  /\ UNCHANGED <<sliderPosition, modeVars, panVars, pipeVars>>

handleWheel(p, deltaY, rect) ==
  /\ droppedFile = NoFile
  /\ rect.width > 0
  /\ hasOriginal
  /\ LET mouseX == Sub(R(p[1]), R(rect.left))
         mouseY == Sub(R(p[2]), R(rect.top))
         newScale == newScaleOf(scale, deltaY)
     IN /\ translateX' = newTranslateOf(mouseX, translateX, scale, newScale)
        /\ translateY' = newTranslateOf(mouseY, translateY, scale, newScale)
        /\ scale' = newScale
  /\ InBounds(translateX') /\ InBounds(translateY')
  /\ wheels < MaxWheels
  /\ wheels' = wheels + 1
  /\ last' = "handleWheel"
  /\ UNCHANGED panelVars
  /\ UNCHANGED dialogs
  /\ UNCHANGED <<sliderPosition, modeVars, panVars, pipeVars>>

----------------------------------------------------------------------------
(* handleWheel at the upper end of the scale, in the arithmetic of the
   build: a JavaScript number is an IEEE 754 binary64, every operation
   rounded to the nearest value of 53 significant bits, ties to even. A
   magnitude is a sequence of bits, the most significant first, because a
   significand of 53 bits exceeds the 32-bit integers of the model *)

Precision == 53
\* quotient bits computed beyond the significand, enough for a divisor
\* below 2^6 to leave a rounding bit
GuardBits == 8

\* the bits of magnitudes are handled eight at a time, as digits in base 256
DigitBits == 8
Base == 2 ^ DigitBits

RECURSIVE BitsOf(_)
BitsOf(n) == IF n = 0 THEN <<>> ELSE BitsOf(n \div 2) \o <<n % 2>>

RECURSIVE ValueOf(_)
ValueOf(b) ==
  IF b = <<>> THEN 0 ELSE 2 * ValueOf(SubSeq(b, 1, Len(b) - 1)) + b[Len(b)]

Zeros(k) == [i \in 1..k |-> 0]
Front(b) == SubSeq(b, 1, Len(b) - 1)

StripZeros(b) ==
  IF \A i \in 1..Len(b) : b[i] = 0 THEN <<>>
  ELSE LET first == CHOOSE i \in 1..Len(b) :
                      b[i] = 1 /\ \A j \in 1..(i - 1) : b[j] = 0
       IN SubSeq(b, first, Len(b))

\* the digits of the bits b, and the bits of the digits d
ToDigits(b) ==
  LET n == (Len(b) + DigitBits - 1) \div DigitBits
      padded == Zeros(n * DigitBits - Len(b)) \o b
  IN [j \in 1..n |->
        ValueOf(SubSeq(padded, DigitBits * (j - 1) + 1, DigitBits * j))]
ToBits(d) ==
  [i \in 1..(DigitBits * Len(d)) |->
     (d[(i - 1) \div DigitBits + 1]
        \div 2 ^ (DigitBits - 1 - ((i - 1) % DigitBits))) % 2]

\* b + 1: the bits after the last 0 are 1 and become 0
IncBits(b) ==
  IF \A i \in 1..Len(b) : b[i] = 1 THEN <<1>> \o Zeros(Len(b))
  ELSE LET z == CHOOSE i \in 1..Len(b) :
                  b[i] = 0 /\ \A j \in (i + 1)..Len(b) : b[j] = 1
       IN SubSeq(b, 1, z - 1) \o <<1>> \o Zeros(Len(b) - z)

\* the quotient q and the remainder r of the digits d by the small integer
\* k, the digits before i done
RECURSIVE DivDigits(_, _, _, _, _)
DivDigits(d, i, k, q, r) ==
  IF i > Len(d) THEN [q |-> q, r |-> r]
  ELSE LET v == Base * r + d[i]
       IN DivDigits(d, i + 1, k, Append(q, v \div k), v % k)
DivBits(b, k) ==
  LET d == DivDigits(ToDigits(b), 1, k, <<>>, 0)
  IN [q |-> ToBits(d.q), r |-> d.r]

\* d * k for the small integer k: the digits i and below are done, low holds
\* their product's low digits and carry the rest
RECURSIVE MulDigits(_, _, _, _, _)
MulDigits(d, i, k, carry, low) ==
  IF i = 0 THEN <<carry>> \o low
  ELSE LET v == d[i] * k + carry
       IN MulDigits(d, i - 1, k, v \div Base, <<v % Base>> \o low)
MulBits(b, k) ==
  LET d == ToDigits(b)
  IN StripZeros(ToBits(MulDigits(d, Len(d), k, 0, <<>>)))

\* x - y for x >= y of the same length: the digits i and below are done
RECURSIVE SubDigits(_, _, _, _, _)
SubDigits(x, y, i, borrow, low) ==
  IF i = 0 THEN low
  ELSE LET v == x[i] - y[i] - borrow
       IN IF v < 0 THEN SubDigits(x, y, i - 1, 1, <<v + Base>> \o low)
          ELSE SubDigits(x, y, i - 1, 0, <<v>> \o low)
SubBits(x, y) ==
  LET dx == ToDigits(x)
      dy == ToDigits(y)
  IN StripZeros(ToBits(SubDigits(dx, dy, Len(dx), 0, <<>>)))

\* x < y for x and y of the same length
LessBits(x, y) ==
  \E i \in 1..Len(x) :
    x[i] < y[i] /\ \A j \in 1..(i - 1) : x[j] = y[j]

\* the binary64 nearest to b * 2^e (b without leading zeros, not empty),
\* plus a fraction of 2^e when sticky: sig * 2^exp with sig of 53 bits
RoundToNearest(b, e, sticky) ==
  IF Len(b) <= Precision
  THEN [sig |-> b \o Zeros(Precision - Len(b)),
        exp |-> e - (Precision - Len(b))]
  ELSE LET keep == SubSeq(b, 1, Precision)
           rest == SubSeq(b, Precision + 1, Len(b))
           more == sticky \/ \E i \in 2..Len(rest) : rest[i] = 1
           up == rest[1] = 1 /\ (more \/ keep[Precision] = 1)
           sig == IF up THEN IncBits(keep) ELSE keep
       IN IF Len(sig) > Precision
          THEN [sig |-> Front(sig), exp |-> e + Len(rest) + 1]
          ELSE [sig |-> sig, exp |-> e + Len(rest)]

\* the positive integer n, and a / k and a * k for a positive binary64 a and
\* an integer k below 2^6
FromInteger(n) == RoundToNearest(BitsOf(n), 0, FALSE)
DivideBy(a, k) ==
  LET d == DivBits(a.sig \o Zeros(GuardBits), k)
  IN RoundToNearest(StripZeros(d.q), a.exp - GuardBits, d.r # 0)
MultiplyBy(a, k) ==
  RoundToNearest(MulBits(a.sig, k), a.exp, FALSE)

\* x - y for positive binary64 x and y: zero is the number 0, any other
\* difference is kept as sign, significand and exponent
Minus(x, y) ==
  LET e == IF x.exp < y.exp THEN x.exp ELSE y.exp
      xb == x.sig \o Zeros(x.exp - e)
      yb == y.sig \o Zeros(y.exp - e)
      len == IF Len(xb) > Len(yb) THEN Len(xb) ELSE Len(yb)
      xp == Zeros(len - Len(xb)) \o xb
      yp == Zeros(len - Len(yb)) \o yb
  IN IF xp = yp THEN R(0)
     ELSE IF LessBits(xp, yp)
     THEN [neg |-> TRUE]
            @@ RoundToNearest(SubBits(yp, xp), e, FALSE)
     ELSE [neg |-> FALSE]
            @@ RoundToNearest(SubBits(xp, yp), e, FALSE)

\* handleWheel: the translate for translate 0, an integer pointer offset and
\* integer scales: contentMouse = mouse / scale, then
\* mouse - contentMouse * newScale
newTranslateBinary64(mouse, s, newScale) ==
  IF mouse = 0 THEN R(0)
  ELSE LET contentMouse == DivideBy(FromInteger(mouse), s)
       IN Minus(FromInteger(mouse), MultiplyBy(contentMouse, newScale))

\* handleWheel with deltaY < 0 at scale 50 and translate (0, 0): the sum
\* scale + 0.1 * scale is above 50 whatever its rounding, so newScale is 50
handleWheelAtMaxScale(p, rect) ==
  /\ droppedFile = NoFile
  /\ rect.width > 0
  /\ hasOriginal
  /\ scale = MaxScale
  /\ translateX = R(0) /\ translateY = R(0)
  /\ p[1] >= rect.left /\ p[2] >= rect.top
  /\ LET mouseX == p[1] - rect.left
         mouseY == p[2] - rect.top
         newScale == newScaleOf(scale, -1)
     IN /\ translateX' = newTranslateBinary64(mouseX, scale[1], newScale[1])
        /\ translateY' = newTranslateBinary64(mouseY, scale[1], newScale[1])
        /\ scale' = newScale
  /\ wheels < MaxWheels
  /\ wheels' = wheels + 1
  /\ last' = "handleWheel"
  /\ UNCHANGED panelVars
  /\ UNCHANGED dialogs
  /\ UNCHANGED <<sliderPosition, modeVars, panVars, pipeVars>>

\* handleContextMenu ending the gesture as well
handleContextMenuEndsGesture ==
  /\ droppedFile = NoFile
  /\ resetView
  /\ isDraggingSlider' = FALSE
  /\ isPanning' = FALSE
  /\ last' = "handleContextMenu"
  /\ UNCHANGED panelVars
  /\ UNCHANGED <<wheels, dialogs>>
  /\ UNCHANGED <<panVars, pipeVars>>

handleContextMenu ==
  /\ droppedFile = NoFile
  /\ resetView
  /\ last' = "handleContextMenu"
  /\ UNCHANGED panelVars
  /\ UNCHANGED <<wheels, dialogs>>
  /\ UNCHANGED <<modeVars, panVars, pipeVars>>

handleTouchStart(onHandle) ==
  /\ droppedFile = NoFile
  /\ onHandle => hasOriginal
  /\ isDraggingSlider' = (isDraggingSlider \/ onHandle)
  /\ last' = "handleTouchStart"
  /\ UNCHANGED panelVars
  /\ UNCHANGED <<wheels, dialogs>>
  /\ UNCHANGED <<viewVars, isPanning, panVars, pipeVars>>

\* the touch ends, or is cancelled, right after its touchstart: the component
\* listens to no touchend, touchcancel or touchmove
touchEnd ==
  /\ droppedFile = NoFile
  /\ last = "handleTouchStart"
  /\ last' = "touchEnd"
  /\ UNCHANGED panelVars
  /\ UNCHANGED <<wheels, dialogs>>
  /\ UNCHANGED <<viewVars, modeVars, panVars, pipeVars>>

----------------------------------------------------------------------------
(* Requests in flight: bags, as functions from the request to its count *)

ProcReqs == [img : Images, fromLoad : BOOLEAN]

RECURSIVE SumOver(_, _)
SumOver(f, S) ==
  IF S = {} THEN 0
  ELSE LET x == CHOOSE y \in S : TRUE IN f[x] + SumOver(f, S \ {x})
Total(f) == SumOver(f, DOMAIN f)

Put(f, x) == [f EXCEPT ![x] = @ + 1]
Take(f, x) == [f EXCEPT ![x] = @ - 1]

\* the number of invoke calls awaiting their answer
InFlight(l, p, o, f) == Total(l) + Total(p) + Total(o) + Total(f)

----------------------------------------------------------------------------
(* The canvases and the reactive statements of CompareSlider.svelte *)

\* no canvas element is bound; a canvas element just created
NoCanvas == [bound |-> FALSE, width |-> 0, height |-> 0, img |-> NoImage]
BlankCanvas == [bound |-> TRUE, width |-> 300, height |-> 150, img |-> NoImage]

\* the {#if hasOriginal} and {#if hasOptimized} blocks with their bind:this,
\* once the stores hold o and r
boundOriginal(o) ==
  IF o = NoImage THEN NoCanvas
  ELSE IF canvasOriginal.bound THEN canvasOriginal ELSE BlankCanvas
boundOptimized(o, r) ==
  IF o = NoImage \/ r = NoImage THEN NoCanvas
  ELSE IF canvasOptimized.bound THEN canvasOptimized ELSE BlankCanvas

\* the style of both transform-wrappers: translate(x, y) scale(s)
transformStyle == <<translateX, translateY, scale>>

\* clipOriginal that is anchored to the transformed content
clipOriginalMoving ==
  <<R(0), Sub(Sub(R(100), sliderPosition), translateX), R(0), R(0)>>

\* the clip-path insets <<top, right, bottom, left>>, in percent, of the
\* original layer and of the optimized layer
clipOriginal == <<R(0), Sub(R(100), sliderPosition), R(0), R(0)>>
clipOptimized == <<R(0), R(0), R(0), sliderPosition>>

\* the "Optimizing..." placeholder shown whenever something is processed
showsOptimizingWheneverProcessing == hasOriginal /\ isProcessing

\* what the optimized layer holds: the processed canvas, or else the
\* "Optimizing..." placeholder; and the "Updating preview..." overlay
showsOptimizedCanvas == hasOriginal /\ hasOptimized
showsOptimizing == hasOriginal /\ ~hasOptimized /\ isProcessing
showsUpdating == hasOriginal /\ isProcessing /\ hasOptimized

\* the style="width: {imageWidth}px; height: {imageHeight}px" of both
\* canvas elements: their size on screen before the transform
displayedSize == <<imageWidth, imageHeight>>

\* drawToCanvas that puts the pixels without sizing the canvas
drawToCanvasKeepsSize(canvas, w, h, i) ==
  [bound |-> TRUE, width |-> canvas.width, height |-> canvas.height, img |-> i]

\* drawToCanvas
drawToCanvas(canvas, w, h, i) ==
  [bound |-> TRUE, width |-> w, height |-> h, img |-> i]

----------------------------------------------------------------------------
(* CompareSlider.svelte: the native drag-and-drop listeners *)

tauriDragOver ==
  /\ droppedFile = NoFile
  /\ isDragOver' = TRUE
  /\ last' = "tauriDragOver"
  /\ UNCHANGED panelVars
  /\ UNCHANGED <<wheels, dialogs>>
  /\ UNCHANGED <<viewVars, modeVars, panVars, canvasVars, storeVars, flightVars>>

tauriDragLeave ==
  /\ droppedFile = NoFile
  /\ isDragOver' = FALSE
  /\ last' = "tauriDragLeave"
  /\ UNCHANGED panelVars
  /\ UNCHANGED <<wheels, dialogs>>
  /\ UNCHANGED <<viewVars, modeVars, panVars, canvasVars, storeVars, flightVars>>

\* acceptedPath without the test of the extension
acceptedPathUnchecked(paths) ==
  IF Len(paths) > 0 THEN paths[1] ELSE NoFile

\* the path the drop listener hands to droppedFile.set, or NoFile
acceptedPath(paths) ==
  IF Len(paths) > 0
  THEN (IF isValidImagePath(paths[1]) THEN paths[1] ELSE NoFile)
  ELSE NoFile

tauriDragDrop(paths) ==
  /\ droppedFile = NoFile
  /\ isDragOver' = FALSE
  /\ IF acceptedPath(paths) # NoFile
     THEN /\ InFlight(loads, procs, origFetches, procFetches) < MaxInFlight
          /\ droppedFile' = acceptedPath(paths)
     ELSE UNCHANGED droppedFile
  /\ last' = "tauriDragDrop"
  /\ UNCHANGED panelVars
  /\ UNCHANGED <<wheels, dialogs>>
  /\ UNCHANGED <<viewVars, modeVars, panVars, canvasVars, originalImageInfo,
                 optimizationResult, isLoading, isProcessing, flightVars>>

----------------------------------------------------------------------------
(* The open-file requests: CompareSlider.svelte dispatches openFile, which
   +page.svelte passes to handleOpenFile of ControlPanel.svelte *)

\* handleOpenFile up to its await of the dialog
handleOpenFile ==
  /\ dialogs < MaxInFlight
  /\ dialogs' = dialogs + 1

Keys == {"o", "O"}

handleKeydown(ctrlKey, key) ==
  /\ droppedFile = NoFile
  /\ IF ctrlKey /\ key = "o" THEN handleOpenFile ELSE UNCHANGED dialogs
  /\ last' = "handleKeydown"
  /\ UNCHANGED panelVars
  /\ UNCHANGED <<viewVars, modeVars, panVars, pipeVars, wheels>>

\* the click of the empty-state button, shown while there is no original
handleEmptyClick ==
  /\ droppedFile = NoFile
  /\ ~hasOriginal
  /\ handleOpenFile
  /\ last' = "handleEmptyClick"
  /\ UNCHANGED panelVars
  /\ UNCHANGED <<viewVars, modeVars, panVars, pipeVars, wheels>>

\* the dialog answers with a path, or with none when it is cancelled; with a
\* path, loadImage runs up to its await of load_image
handleOpenFileResolved(selected) ==
  /\ droppedFile = NoFile
  /\ dialogs > 0
  /\ dialogs' = dialogs - 1
  /\ IF selected # NoFile
     THEN /\ InFlight(loads, procs, origFetches, procFetches) < MaxInFlight
          /\ isLoading' = TRUE
          /\ loads' = Put(loads, selected)
     ELSE UNCHANGED <<isLoading, loads>>
  /\ last' = "handleOpenFileResolved"
  /\ UNCHANGED panelVars
  /\ UNCHANGED <<viewVars, modeVars, panVars, isDragOver, canvasVars,
                 originalImageInfo, optimizationResult, isProcessing,
                 droppedFile, procs, origFetches, procFetches, wheels>>

\* the dialog fails: the catch logs
handleOpenFileRejected ==
  /\ droppedFile = NoFile
  /\ dialogs > 0
  /\ dialogs' = dialogs - 1
  /\ last' = "handleOpenFileRejected"
  /\ UNCHANGED panelVars
  /\ UNCHANGED <<viewVars, modeVars, panVars, pipeVars, wheels>>

----------------------------------------------------------------------------------------------------------------------------------------------------
(* ControlPanel.svelte: the settings modal *)

\* the click of the Settings button
openSettings ==
  /\ droppedFile = NoFile
  /\ ~showSettings
  /\ showSettings' = TRUE
  /\ last' = "openSettings"
  /\ UNCHANGED <<debounceTimer, timers, edits>>
  /\ UNCHANGED <<viewVars, modeVars, panVars, pipeVars, dialogs, wheels>>

\* the click of the modal's close button or of its backdrop, or Escape
closeSettings ==
  /\ droppedFile = NoFile
  /\ showSettings
  /\ showSettings' = FALSE
  /\ last' = "closeSettings"
  /\ UNCHANGED <<debounceTimer, timers, edits>>
  /\ UNCHANGED <<viewVars, modeVars, panVars, pipeVars, dialogs, wheels>>

----------------------------------------------------------------------------
(* ControlPanel.svelte: the debounce of processImage *)

\* triggerProcess without its clearTimeout
triggerProcessWithoutClear ==
  /\ droppedFile = NoFile
  /\ edits < MaxEdits
  /\ edits' = edits + 1
  /\ debounceTimer' = edits + 1
  /\ timers' = timers
                  \cup {[id |-> edits + 1, due |-> DebounceDelay]}
  /\ last' = "triggerProcess"
  /\ UNCHANGED showSettings
  /\ UNCHANGED <<viewVars, modeVars, panVars, pipeVars, dialogs, wheels>>

\* an edit of a parameter calls triggerProcess: clearTimeout(debounceTimer),
\* then setTimeout(() => processImage(), 400), whose handle is the number of
\* the call
triggerProcess ==
  /\ droppedFile = NoFile
  /\ edits < MaxEdits
  /\ edits' = edits + 1
  /\ debounceTimer' = edits + 1
  /\ timers' = {t \in timers : t.id # debounceTimer}
                  \cup {[id |-> edits + 1, due |-> DebounceDelay]}
  /\ last' = "triggerProcess"
  /\ UNCHANGED showSettings
  /\ UNCHANGED <<viewVars, modeVars, panVars, pipeVars, dialogs, wheels>>

\* 100 ms pass; a timeout that is due runs before more time passes
tick ==
  /\ droppedFile = NoFile
  /\ timers # {}
  /\ \A t \in timers : t.due > 0
  /\ timers' = {[t EXCEPT !.due = @ - 1] : t \in timers}
  /\ last' = "tick"
  /\ UNCHANGED <<showSettings, debounceTimer, edits>>
  /\ UNCHANGED <<viewVars, modeVars, panVars, pipeVars, dialogs, wheels>>

\* the timeout t runs: processImage up to its await of process_image
debounceTimerFired(t) ==
  /\ droppedFile = NoFile
  /\ t \in timers
  /\ t.due = 0
  /\ timers' = timers \ {t}
  /\ IF ~hasOriginal
     THEN UNCHANGED <<isProcessing, procs>>
     ELSE /\ isProcessing' = TRUE
          /\ procs' = Put(procs, [img |-> originalImageInfo, fromLoad |-> FALSE])
          /\ InFlight(loads, procs', origFetches, procFetches) <= MaxInFlight
  /\ last' = "debounceTimerFired"
  /\ UNCHANGED <<showSettings, debounceTimer, edits>>
  /\ UNCHANGED <<viewVars, modeVars, panVars, isDragOver, canvasVars,
                 originalImageInfo, optimizationResult, isLoading, droppedFile,
                 loads, origFetches, procFetches, dialogs, wheels>>

\* the timeouts that may exist
Timers == [id : 1..(MaxEdits + 1), due : 0..DebounceDelay]

----
(* ControlPanel.svelte: loadImage and processImage *)

\* the reactive block without its call of loadImage
droppedFileConsumerWithoutLoad ==
  /\ droppedFile # NoFile
  /\ droppedFile' = NoFile
  /\ last' = "droppedFileConsumer"
  /\ UNCHANGED panelVars
  /\ UNCHANGED <<wheels, dialogs>>
  /\ UNCHANGED <<viewVars, modeVars, panVars, isDragOver, canvasVars,
                 originalImageInfo, optimizationResult, isLoading,
                 isProcessing, flightVars>>

\* $: if ($droppedFile) { loadImage($droppedFile); droppedFile.set(null) },
\* with loadImage up to its await of load_image
droppedFileConsumer ==
  /\ droppedFile # NoFile
  /\ isLoading' = TRUE
  /\ loads' = Put(loads, droppedFile)
  /\ droppedFile' = NoFile
  /\ last' = "droppedFileConsumer"
  /\ UNCHANGED panelVars
  /\ UNCHANGED <<wheels, dialogs>>
  /\ UNCHANGED <<viewVars, modeVars, panVars, isDragOver, canvasVars,
                 originalImageInfo, optimizationResult, isProcessing,
                 procs, origFetches, procFetches>>

\* loadImageResolved with a processImage that clears the old result first
loadImageResolvedClearsResult(path) ==
  /\ droppedFile = NoFile
  /\ loads[path] > 0
  /\ LET result == ImageOf(path)
         req == [img |-> result, fromLoad |-> TRUE]
     IN /\ loads' = Take(loads, path)
        /\ originalImageInfo' = result
        /\ optimizationResult' = NoImage
        /\ isProcessing' = TRUE
        /\ procs' = Put(procs, req)
        /\ canvasOriginal' = boundOriginal(result)
        /\ canvasOptimized' = boundOptimized(result, NoImage)
        /\ origFetches' = Put(origFetches, result)
        /\ UNCHANGED procFetches
  /\ InFlight(loads', procs', origFetches', procFetches') <= MaxInFlight
  /\ last' = "loadImageResolved"
  /\ UNCHANGED panelVars
  /\ UNCHANGED <<wheels, dialogs>>
  /\ UNCHANGED <<viewVars, modeVars, panVars, isDragOver, imageWidth,
                 imageHeight, isLoading, droppedFile>>

\* load_image answers: originalImageInfo.set(result), then processImage up to
\* its await of process_image; the reactive statements of CompareSlider run
\* before the next event
loadImageResolved(path) ==
  /\ droppedFile = NoFile
  /\ loads[path] > 0
  /\ LET result == ImageOf(path)
         req == [img |-> result, fromLoad |-> TRUE]
     IN /\ loads' = Take(loads, path)
        /\ originalImageInfo' = result
        /\ isProcessing' = TRUE
        /\ procs' = Put(procs, req)
        /\ canvasOriginal' = boundOriginal(result)
        /\ canvasOptimized' = boundOptimized(result, optimizationResult)
        /\ origFetches' = Put(origFetches, result)
        /\ IF canvasOptimized'.bound /\ ~canvasOptimized.bound
           THEN procFetches' = Put(procFetches, optimizationResult)
           ELSE UNCHANGED procFetches
  /\ InFlight(loads', procs', origFetches', procFetches') <= MaxInFlight
  /\ last' = "loadImageResolved"
  /\ UNCHANGED panelVars
  /\ UNCHANGED <<wheels, dialogs>>
  /\ UNCHANGED <<viewVars, modeVars, panVars, isDragOver, imageWidth,
                 imageHeight, optimizationResult, isLoading, droppedFile>>

\* load_image fails: the catch logs, the finally clears isLoading
\* loadImage without its finally when load_image fails
loadImageRejectedKeepsLoading(path) ==
  /\ droppedFile = NoFile
  /\ loads[path] > 0
  /\ loads' = Take(loads, path)
  /\ last' = "loadImageRejected"
  /\ UNCHANGED panelVars
  /\ UNCHANGED <<wheels, dialogs>>
  /\ UNCHANGED <<viewVars, modeVars, panVars, isDragOver, canvasVars,
                 originalImageInfo, optimizationResult, isLoading,
                 isProcessing, droppedFile, procs, origFetches, procFetches>>

loadImageRejected(path) ==
  /\ droppedFile = NoFile
  /\ loads[path] > 0
  /\ loads' = Take(loads, path)
  /\ isLoading' = FALSE
  /\ last' = "loadImageRejected"
  /\ UNCHANGED panelVars
  /\ UNCHANGED <<wheels, dialogs>>
  /\ UNCHANGED <<viewVars, modeVars, panVars, isDragOver, canvasVars,
                 originalImageInfo, optimizationResult, isProcessing,
                 droppedFile, procs, origFetches, procFetches>>

\* process_image answers: optimizationResult.set(result), the finally of
\* processImage, and the finally of the loadImage that awaited it
\* processImageResolved that keeps a result already there
processImageResolvedKeepsFirst(req) ==
  /\ droppedFile = NoFile
  /\ procs[req] > 0
  /\ procs' = Take(procs, req)
  /\ optimizationResult' =
       IF optimizationResult = NoImage THEN req.img ELSE optimizationResult
  /\ canvasOptimized' = boundOptimized(originalImageInfo, optimizationResult')
  /\ IF canvasOptimized'.bound
     THEN procFetches' = Put(procFetches, optimizationResult')
     ELSE UNCHANGED procFetches
  /\ isProcessing' = FALSE
  /\ isLoading' = IF req.fromLoad THEN FALSE ELSE isLoading
  /\ last' = "processImageResolved"
  /\ UNCHANGED panelVars
  /\ UNCHANGED <<wheels, dialogs>>
  /\ UNCHANGED <<viewVars, modeVars, panVars, isDragOver, imageWidth,
                 imageHeight, canvasOriginal, originalImageInfo, droppedFile,
                 loads, origFetches>>

processImageResolved(req) ==
  /\ droppedFile = NoFile
  /\ procs[req] > 0
  /\ procs' = Take(procs, req)
  /\ optimizationResult' = req.img
  /\ canvasOptimized' = boundOptimized(originalImageInfo, req.img)
  /\ IF canvasOptimized'.bound
     THEN procFetches' = Put(procFetches, req.img)
     ELSE UNCHANGED procFetches
  /\ isProcessing' = FALSE
  /\ isLoading' = IF req.fromLoad THEN FALSE ELSE isLoading
  /\ last' = "processImageResolved"
  /\ UNCHANGED panelVars
  /\ UNCHANGED <<wheels, dialogs>>
  /\ UNCHANGED <<viewVars, modeVars, panVars, isDragOver, imageWidth,
                 imageHeight, canvasOriginal, originalImageInfo, droppedFile,
                 loads, origFetches>>

processImageRejected(req) ==
  /\ droppedFile = NoFile
  /\ procs[req] > 0
  /\ procs' = Take(procs, req)
  /\ isProcessing' = FALSE
  /\ isLoading' = IF req.fromLoad THEN FALSE ELSE isLoading
  /\ last' = "processImageRejected"
  /\ UNCHANGED panelVars
  /\ UNCHANGED <<wheels, dialogs>>
  /\ UNCHANGED <<viewVars, modeVars, panVars, isDragOver, canvasVars,
                 originalImageInfo, optimizationResult, droppedFile,
                 loads, origFetches, procFetches>>

----------------------------------------------------------------------------
(* CompareSlider.svelte: loadOriginalCanvas and loadProcessedCanvas *)

\* loadOriginalCanvas painting without the call of resetView
loadOriginalCanvasKeepsView(i) ==
  /\ droppedFile = NoFile
  /\ origFetches[i] > 0
  /\ origFetches' = Take(origFetches, i)
  /\ IF canvasOriginal.bound
     THEN /\ canvasOriginal' = drawToCanvas(canvasOriginal, ImgWidth(i), ImgHeight(i), i)
          /\ imageWidth' = ImgWidth(i)
          /\ imageHeight' = ImgHeight(i)
     ELSE UNCHANGED <<canvasOriginal, imageWidth, imageHeight>>
  /\ last' = "loadOriginalCanvasResolved"
  /\ UNCHANGED panelVars
  /\ UNCHANGED <<wheels, dialogs>>
  /\ UNCHANGED <<viewVars, modeVars, panVars, isDragOver, canvasOptimized,
                 storeVars, loads, procs, procFetches>>

\* get_original_image_data answers; drawToCanvas throws into the catch when
\* the canvas is gone
loadOriginalCanvasResolved(i) ==
  /\ droppedFile = NoFile
  /\ origFetches[i] > 0
  /\ origFetches' = Take(origFetches, i)
  /\ IF canvasOriginal.bound
     THEN /\ canvasOriginal' = drawToCanvas(canvasOriginal, ImgWidth(i), ImgHeight(i), i)
          /\ imageWidth' = ImgWidth(i)
          /\ imageHeight' = ImgHeight(i)
          /\ resetView
     ELSE UNCHANGED <<canvasOriginal, imageWidth, imageHeight, viewVars>>
  /\ last' = "loadOriginalCanvasResolved"
  /\ UNCHANGED panelVars
  /\ UNCHANGED <<wheels, dialogs>>
  /\ UNCHANGED <<modeVars, panVars, isDragOver, canvasOptimized, storeVars,
                 loads, procs, procFetches>>

\* loadOriginalCanvasRejected with a catch that clears the canvas and the view
loadOriginalCanvasRejectedClears(i) ==
  /\ droppedFile = NoFile
  /\ origFetches[i] > 0
  /\ origFetches' = Take(origFetches, i)
  /\ canvasOriginal' = IF canvasOriginal.bound THEN BlankCanvas ELSE NoCanvas
  /\ imageWidth' = 0
  /\ imageHeight' = 0
  /\ resetView
  /\ last' = "loadOriginalCanvasRejected"
  /\ UNCHANGED panelVars
  /\ UNCHANGED <<wheels, dialogs>>
  /\ UNCHANGED <<modeVars, panVars, isDragOver, canvasOptimized, storeVars,
                 loads, procs, procFetches>>

\* get_original_image_data fails: the catch logs
loadOriginalCanvasRejected(i) ==
  /\ droppedFile = NoFile
  /\ origFetches[i] > 0
  /\ origFetches' = Take(origFetches, i)
  /\ last' = "loadOriginalCanvasRejected"
  /\ UNCHANGED panelVars
  /\ UNCHANGED <<wheels, dialogs>>
  /\ UNCHANGED <<viewVars, modeVars, panVars, isDragOver, canvasVars,
                 storeVars, loads, procs, procFetches>>

\* get_processed_image_data answers with the processed pixels, which have the
\* original's size or, when a resize was applied, another one
loadProcessedCanvasResolved(i, resized) ==
  /\ droppedFile = NoFile
  /\ procFetches[i] > 0
  /\ procFetches' = Take(procFetches, i)
  /\ LET w == IF resized THEN ImgWidth(i) \div 2 ELSE ImgWidth(i)
         h == IF resized THEN ImgHeight(i) \div 2 ELSE ImgHeight(i)
     IN IF canvasOptimized.bound
        THEN /\ canvasOptimized' = drawToCanvas(canvasOptimized, w, h, i)
             /\ imageWidth' = w
             /\ imageHeight' = h
        ELSE UNCHANGED <<canvasOptimized, imageWidth, imageHeight>>
  /\ last' = "loadProcessedCanvasResolved"
  /\ UNCHANGED panelVars
  /\ UNCHANGED <<wheels, dialogs>>
  /\ UNCHANGED <<viewVars, modeVars, panVars, isDragOver, canvasOriginal,
                 storeVars, loads, procs, origFetches>>

loadProcessedCanvasRejected(i) ==
  /\ droppedFile = NoFile
  /\ procFetches[i] > 0
  /\ procFetches' = Take(procFetches, i)
  /\ last' = "loadProcessedCanvasRejected"
  /\ UNCHANGED panelVars
  /\ UNCHANGED <<wheels, dialogs>>
  /\ UNCHANGED <<viewVars, modeVars, panVars, isDragOver, canvasVars,
                 storeVars, loads, procs, origFetches>>

----------------------------------------------------------------------------
(* imageStore.ts: resetStores, the on:click of the close button *)

resetStores ==
  /\ droppedFile = NoFile
  /\ hasOriginal
  /\ originalImageInfo' = NoImage
  /\ optimizationResult' = NoImage
  /\ isProcessing' = FALSE
  /\ isLoading' = FALSE
  /\ canvasOriginal' = boundOriginal(NoImage)
  /\ canvasOptimized' = boundOptimized(NoImage, NoImage)
  /\ last' = "resetStores"
  /\ UNCHANGED panelVars
  /\ UNCHANGED <<wheels, dialogs>>
  /\ UNCHANGED <<viewVars, modeVars, panVars, isDragOver, imageWidth,
                 imageHeight, droppedFile, flightVars>>

----------------------------------------------------------------------------
(* Specifications *)

\* the state once the component is mounted
Init ==
  /\ sliderPosition = R(50)
  /\ scale = R(1)
  /\ translateX = R(0)
  /\ translateY = R(0)
  /\ isDraggingSlider = FALSE
  /\ isPanning = FALSE
  /\ panStartX = 0 /\ panStartY = 0
  /\ panStartTranslateX = R(0) /\ panStartTranslateY = R(0)
  /\ isDragOver = FALSE
  /\ imageWidth = 0 /\ imageHeight = 0
  /\ canvasOriginal = NoCanvas
  /\ canvasOptimized = NoCanvas
  /\ originalImageInfo = NoImage
  /\ optimizationResult = NoImage
  /\ isLoading = FALSE
  /\ isProcessing = FALSE
  /\ droppedFile = NoFile
  /\ loads = [p \in Paths |-> 0]
  /\ procs = [q \in ProcReqs |-> 0]
  /\ origFetches = [i \in Images |-> 0]
  /\ procFetches = [i \in Images |-> 0]
  /\ last = "onMount"
  /\ wheels = 0
  /\ dialogs = 0
  /\ showSettings = FALSE
  /\ debounceTimer = NoTimer
  /\ timers = {}
  /\ edits = 0

\* the state with image i loaded and shown, processed (r = i) or with its
\* processing failed (r = NoImage), after zooming at the container's corner
\* until the scale is s
Shown(i, r, s) ==
  /\ sliderPosition = R(50)
  /\ scale = s
  /\ translateX = R(0)
  /\ translateY = R(0)
  /\ isDraggingSlider = FALSE
  /\ isPanning = FALSE
  /\ panStartX = 0 /\ panStartY = 0
  /\ panStartTranslateX = R(0) /\ panStartTranslateY = R(0)
  /\ isDragOver = FALSE
  /\ imageWidth = ImgWidth(i) /\ imageHeight = ImgHeight(i)
  /\ canvasOriginal = drawToCanvas(BlankCanvas, ImgWidth(i), ImgHeight(i), i)
  /\ canvasOptimized =
       IF r = NoImage THEN NoCanvas
       ELSE drawToCanvas(BlankCanvas, ImgWidth(i), ImgHeight(i), i)
  /\ originalImageInfo = i
  /\ optimizationResult = r
  /\ isLoading = FALSE
  /\ isProcessing = FALSE
  /\ droppedFile = NoFile
  /\ loads = [p \in Paths |-> 0]
  /\ procs = [q \in ProcReqs |-> 0]
  /\ origFetches = [j \in Images |-> 0]
  /\ procFetches = [j \in Images |-> 0]
  /\ last = "handleWheel"
  /\ wheels = 0
  /\ dialogs = 0
  /\ showSettings = FALSE
  /\ debounceTimer = NoTimer
  /\ timers = {}
  /\ edits = 0

InitView == \E r \in {NoImage, 1}, s \in {R(1), MinScale, <<11, 100>>, <<99, 2>>, MaxScale} : Shown(1, r, s)

\* the pointer, wheel and touch handlers, for pointer positions over the
\* container (inside) and anywhere (window) and the container rectangles
Pointer(inside, window, rects) ==
  \/ \E p \in inside, h \in BOOLEAN, r \in rects : handleMouseDown(p, h, r)
  \/ \E p \in window, r \in rects : handleMouseMove(p, r)
  \/ handleMouseUp
  \/ \E p \in inside, d \in DeltaYs, r \in rects : handleWheel(p, d, r)
  \/ handleContextMenu
  \/ \E h \in BOOLEAN : handleTouchStart(h)

DropLists == UNION {[1..n -> Paths] : n \in 0..MaxDropped}

\* the load and process pipeline from the drop of files to the painted canvases
Loading ==
  \/ droppedFileConsumer
  \/ \E path \in Paths : loadImageResolved(path)
  \/ \E path \in Paths : loadImageRejected(path)
  \/ \E req \in ProcReqs : processImageResolved(req)
  \/ \E req \in ProcReqs : processImageRejected(req)
  \/ \E i \in Images : loadOriginalCanvasResolved(i)
  \/ \E i \in Images : loadOriginalCanvasRejected(i)
  \/ \E i \in Images, z \in BOOLEAN : loadProcessedCanvasResolved(i, z)
  \/ \E i \in Images : loadProcessedCanvasRejected(i)
  \/ resetStores
Pipeline == (\E paths \in DropLists : tauriDragDrop(paths)) \/ Loading

\* the requests to open a file through the dialog, with the settings modal
\* opened and closed in between
Settings == openSettings \/ closeSettings
Opening ==
  \/ \E c \in BOOLEAN, k \in Keys : handleKeydown(c, k)
  \/ handleEmptyClick
  \/ \E selected \in Paths \cup {NoFile} : handleOpenFileResolved(selected)
  \/ handleOpenFileRejected

\* the edits of the parameters and the debounce that follows them
Debounce ==
  \/ triggerProcess
  \/ tick
  \/ \E t \in Timers : debounceTimerFired(t)

\* the whole program
Next ==
  \/ Pointer(InsidePoints, WindowPoints, Rects)
  \/ touchEnd
  \/ tauriDragOver
  \/ tauriDragLeave
  \/ Opening
  \/ Settings
  \/ Debounce
  \/ Pipeline
Spec == Init /\ [][Next]_vars

\* the viewer with an image shown, until the image is closed
NextView == Pointer(InsidePoints, WindowPoints, Rects) \/ resetStores
SpecView == InitView /\ [][NextView]_vars

\* the pipeline alone: it reads nothing the pointer handlers write
SpecPipeline == Init /\ [][Pipeline]_vars

\* the pipeline while the user zooms and moves the divider at one point
NextLoad ==
  \/ \E path \in {PathA, PathPhotoTIFF} : tauriDragDrop(<<path>>)
  \/ Loading
  \/ \E d \in DeltaYs : handleWheel(<<100, 50>>, d, Rects800)
  \/ handleMouseDown(<<100, 50>>, TRUE, Rects800)
SpecLoad == Init /\ [][NextLoad]_vars

\* the divider dragged along the container's top edge, for several container
\* rectangles
SliderXs == {-100, 0, 50, 100, 200, 300, 400, 600, 800, 900}
SliderRects ==
  {[left |-> l, top |-> 0, width |-> w] : l \in {0, 50}, w \in {0, 300, 500, 800}}
NextSlider ==
  \/ \E x \in SliderXs, r \in SliderRects :
       /\ r.left <= x /\ x <= r.left + r.width
       /\ handleMouseDown(<<x, 0>>, TRUE, r)
  \/ \E x \in SliderXs, r \in SliderRects : handleMouseMove(<<x, 0>>, r)
  \/ handleMouseUp
  \/ handleTouchStart(TRUE)
  \/ touchEnd
  \/ handleContextMenu
InitSlider == Shown(1, 1, R(1))
SpecSlider == InitSlider /\ [][NextSlider]_vars

\* the wheel in every interaction mode, with and without an image
ZoomPoints == {<<0, 0>>, <<100, 100>>, <<400, 300>>}
NextZoom ==
  \/ \E p \in ZoomPoints, d \in DeltaYs : handleWheel(p, d, Rects800)
  \/ \E p \in ZoomPoints, h \in BOOLEAN : handleMouseDown(p, h, Rects800)
  \/ handleMouseUp
  \/ \E h \in BOOLEAN : handleTouchStart(h)
  \/ handleContextMenu
  \/ resetStores
SpecZoom == InitView /\ [][NextZoom]_vars

\* the parameters edited while an image is shown, with the processing each
\* quiet period starts
NextDebounce ==
  \/ Debounce
  \/ \E req \in ProcReqs : processImageResolved(req)
  \/ \E req \in ProcReqs : processImageRejected(req)
  \/ \E i \in Images, z \in BOOLEAN : loadProcessedCanvasResolved(i, z)
  \/ \E i \in Images : loadProcessedCanvasRejected(i)
  \/ resetStores
InitDebounce == Shown(1, 1, R(1))
SpecDebounce == InitDebounce /\ [][NextDebounce]_vars

\* two loads in a row: image 1 was loaded, then image 2 before process_image
\* had answered for image 1; the original of image 2 is painted and both
\* process_image requests are awaited
InitOrder ==
  /\ sliderPosition = R(50)
  /\ scale = R(1)
  /\ translateX = R(0)
  /\ translateY = R(0)
  /\ isDraggingSlider = FALSE
  /\ isPanning = FALSE
  /\ panStartX = 0 /\ panStartY = 0
  /\ panStartTranslateX = R(0) /\ panStartTranslateY = R(0)
  /\ isDragOver = FALSE
  /\ imageWidth = ImgWidth(2) /\ imageHeight = ImgHeight(2)
  /\ canvasOriginal = drawToCanvas(BlankCanvas, ImgWidth(2), ImgHeight(2), 2)
  /\ canvasOptimized = NoCanvas
  /\ originalImageInfo = 2
  /\ optimizationResult = NoImage
  /\ isLoading = TRUE
  /\ isProcessing = TRUE
  /\ droppedFile = NoFile
  /\ loads = [p \in Paths |-> 0]
  /\ procs = [q \in ProcReqs |-> IF q.fromLoad THEN 1 ELSE 0]
  /\ origFetches = [j \in Images |-> 0]
  /\ procFetches = [j \in Images |-> 0]
  /\ last = "loadOriginalCanvasResolved"
  /\ wheels = 0
  /\ dialogs = 0
  /\ showSettings = FALSE
  /\ debounceTimer = NoTimer
  /\ timers = {}
  /\ edits = 0
SpecOrder == InitOrder /\ [][NextDebounce]_vars

\* every kind of event of the component with image 1 shown and the pointer
\* held at one position: the pointer, the wheel, the touch, the context menu,
\* the keyboard, the drop of a.png and the completions of its load, of its
\* processing and of the fetches for its canvases
NextModes ==
  \/ \E h \in BOOLEAN : handleMouseDown(<<100, 50>>, h, Rects800)
  \/ handleMouseMove(<<100, 50>>, Rects800)
  \/ handleMouseUp
  \/ handleWheel(<<100, 50>>, -1, Rects800)
  \/ handleContextMenu
  \/ \E h \in BOOLEAN : handleTouchStart(h)
  \/ \E c \in BOOLEAN, k \in Keys : handleKeydown(c, k)
  \/ handleOpenFileRejected
  \/ tauriDragDrop(<<PathA>>)
  \/ droppedFileConsumer
  \/ loadImageResolved(PathA)
  \/ loadImageRejected(PathA)
  \/ \E req \in ProcReqs : processImageResolved(req)
  \/ \E req \in ProcReqs : processImageRejected(req)
  \/ loadOriginalCanvasResolved(1)
  \/ loadProcessedCanvasResolved(1, FALSE)
InitModes == Shown(1, 1, R(1))
SpecModes == InitModes /\ [][NextModes]_vars

\* the zoom in at the upper end of the scale, in binary64, at several
\* pointer positions and in every interaction mode
BoundPoints == {<<0, 0>>, <<7, 14>>, <<28, 29>>, <<100, 50>>}
NextBound ==
  \/ \E p \in BoundPoints : handleWheelAtMaxScale(p, Rects800)
  \/ \E p \in BoundPoints, h \in BOOLEAN : handleMouseDown(p, h, Rects800)
  \/ handleMouseUp
  \/ \E h \in BOOLEAN : handleTouchStart(h)
  \/ resetStores
InitBound == \E r \in {NoImage, 1} : Shown(1, r, MaxScale)
SpecBound == InitBound /\ [][NextBound]_vars

\* the drop and open gateway, with files the loader cannot read
NextGateway ==
  \/ tauriDragOver
  \/ tauriDragLeave
  \/ Opening
  \/ \E paths \in DropLists : tauriDragDrop(paths)
  \/ droppedFileConsumer
  \/ \E path \in Paths : loadImageRejected(path)
  \/ Settings
SpecGateway == Init /\ [][NextGateway]_vars

\* the drops, with files the loader cannot read, while the settings modal is
\* opened and closed and the file dialog is requested and cancelled or fails;
\* the reactive block is run by Svelte's scheduled flush: once the store is
\* set the block is not postponed for ever
NextDrop ==
  \/ tauriDragOver
  \/ tauriDragLeave
  \/ \E paths \in DropLists : tauriDragDrop(paths)
  \/ droppedFileConsumer
  \/ \E path \in Paths : loadImageRejected(path)
  \/ Settings
  \/ \E c \in BOOLEAN, k \in Keys : handleKeydown(c, k)
  \/ handleOpenFileResolved(NoFile)
  \/ handleOpenFileRejected
SpecDrop == Init /\ [][NextDrop]_vars /\ WF_vars(droppedFileConsumer)

----------------------------------------------------------------------------
(* Properties *)

\* the defaults of the view
IsReset ==
  /\ scale = R(1)
  /\ translateX = R(0)
  /\ translateY = R(0)
  /\ sliderPosition = R(50)

ContentAt(mouse, translate, s) == Div(Sub(mouse, translate), s)

C3_SliderDefinedInRange ==
  /\ IsFinite(sliderPosition)
  /\ Le(R(0), sliderPosition)
  /\ Le(sliderPosition, R(100))

\* C4: isDraggingSlider and isPanning are never both true, for any sequence
\* of mouse-down, mouse-move, mouse-up, touch-start, wheel and context-menu
C4_ModesExclusive == ~(isDraggingSlider /\ isPanning)

\* C5: after handleMouseUp both isDraggingSlider and isPanning are false,
\* image loaded or not, and a pointer-move in that idle mode changes neither
\* the transform nor the reveal position
C5_MouseUpReturnsToIdle ==
  [][/\ last' = "handleMouseUp" => (~isDraggingSlider' /\ ~isPanning')
     /\ (last' = "handleMouseMove" /\ ~isDraggingSlider /\ ~isPanning)
          => UNCHANGED <<viewVars, modeVars>>]_vars

\* a pan that began at (100, 50) has been ended, the image closed, and the
\* pointer moved afterwards
C5_MovedAfterRelease ==
  /\ last = "handleMouseMove"
  /\ ~isDraggingSlider
  /\ ~isPanning
  /\ panStartX = 100
  /\ ~hasOriginal

\* C6: right after a context-menu event, in any interaction mode and from any
\* transform and reveal position, scale = 1, translate = (0, 0), position = 50
C6_ContextMenuResets == last = "handleContextMenu" => IsReset

\* a right-click during a pan that began on moved content
C6_ResetWhilePanning ==
  /\ last = "handleContextMenu"
  /\ isPanning
  /\ panStartTranslateX # R(0)
  /\ IsReset

\* the steps of a load, from the drop to the painted canvases
LoadMoments ==
  {"tauriDragDrop", "droppedFileConsumer", "loadImageResolved",
   "loadImageRejected", "processImageResolved", "processImageRejected",
   "loadOriginalCanvasResolved", "loadOriginalCanvasRejected",
   "loadProcessedCanvasResolved", "loadProcessedCanvasRejected"}

\* C7: the step that paints a fetched original leaves scale = 1,
\* translate = (0, 0), position = 50 whatever the view was, and no other
\* step of a load changes the view
C7_ResetWhenOriginalPainted ==
  [][IF last' = "loadOriginalCanvasResolved" /\ canvasOriginal.bound
     THEN IsReset'
     ELSE last' \in LoadMoments => UNCHANGED viewVars]_vars

\* an original has been painted after the user zoomed
C7_PaintedAfterZoom ==
  /\ last = "loadOriginalCanvasResolved"
  /\ canvasOriginal.img # NoImage
  /\ wheels > 0
  /\ IsReset

\* C8: right after the close action both images are cleared and the view is
\* at scale = 1, translate = (0, 0), position = 50
C8_CloseResetsView ==
  last = "resetStores" => (~hasOriginal /\ ~hasOptimized /\ IsReset)

\* the allow-list, and the letters that differ in case only
ImageExts ==
  {<<".", "p", "n", "g">>, <<".", "j", "p", "g">>, <<".", "j", "p", "e", "g">>,
   <<".", "w", "e", "b", "p">>, <<".", "g", "i", "f">>, <<".", "b", "m", "p">>}
CasePairs ==
  {<<"P", "p">>, <<"N", "n">>, <<"G", "g">>, <<"T", "t">>, <<"I", "i">>,
   <<"F", "f">>, <<"J", "j">>}
SameLetter(a, b) == a = b \/ <<a, b>> \in CasePairs \/ <<b, a>> \in CasePairs
EndsInImageExt(path) ==
  \E ext \in ImageExts :
    /\ Len(path) >= Len(ext)
    /\ \A k \in 1..Len(ext) : SameLetter(path[Len(path) - Len(ext) + k], ext[k])

\* C9: the path of a drop of one file is accepted exactly when, compared
\* case-insensitively, it ends in .png, .jpg, .jpeg, .webp, .gif or .bmp;
\* photo.PNG is accepted, photo.TIFF is rejected; a rejected path neither
\* sets droppedFile nor starts a load, the loads that follow a drop being
\* those of an accepted path
C9_AcceptedIffImageExt ==
  [][/\ isValidImagePath(PathPhotoPNG)
     /\ ~isValidImagePath(PathPhotoTIFF)
     /\ last' = "tauriDragDrop" =>
          \A path \in Paths :
            tauriDragDrop(<<path>>) =>
              IF EndsInImageExt(path)
              THEN droppedFile' = path
              ELSE UNCHANGED <<droppedFile, loads>>
     /\ droppedFile' # NoFile => EndsInImageExt(droppedFile')
     /\ last' = "droppedFileConsumer" =>
          (EndsInImageExt(droppedFile) /\ loads' = Put(loads, droppedFile))]_vars

\* photo.PNG has been dropped and handed over
C9_UpperCaseAccepted ==
  /\ last = "tauriDragDrop"
  /\ droppedFile = PathPhotoPNG

\* the first path of a list, in list order, that ends in an allowed extension
RECURSIVE FirstValid(_)
FirstValid(paths) ==
  IF paths = <<>> THEN NoFile
  ELSE IF EndsInImageExt(Head(paths)) THEN Head(paths)
  ELSE FirstValid(Tail(paths))

\* C10: a drop of several paths hands over the first path in list order that
\* has a valid extension, and nothing when there is none
C10_FirstValidPathLoads ==
  [][last' = "tauriDragDrop" =>
       \A paths \in DropLists :
         tauriDragDrop(paths) => droppedFile' = FirstValid(paths)]_vars

\* C11: a drop whose path is invalid leaves droppedFile, originalImageInfo,
\* optimizationResult, isLoading, isProcessing, the transform and the reveal
\* position as they were and issues no load request
C11_InvalidDropChangesNothing ==
  [][last' = "tauriDragDrop" =>
       \A path \in Paths :
         (tauriDragDrop(<<path>>) /\ ~EndsInImageExt(path)) =>
           UNCHANGED <<droppedFile, originalImageInfo, optimizationResult,
                       isLoading, isProcessing, viewVars, flightVars>>]_vars

\* photo.TIFF has been dropped on a zoomed image
C11_InvalidDroppedOnZoomed ==
  /\ last = "tauriDragDrop"
  /\ droppedFile = NoFile
  /\ hasOriginal
  /\ scale # R(1)

\* ((x - left) / width) * 100 held between 0 and 100
ClampPercent(x, left, width) ==
  LET v == Mul(Div(R(x - left), R(width)), R(100))
  IN IF Lt(v, R(0)) THEN R(0) ELSE IF Lt(R(100), v) THEN R(100) ELSE v

\* C12: for every pointer X, container left and container width > 0, a
\* divider-drag update (the press on the handle and every move of the drag)
\* sets position = clamp(((pointerX - left) / width) * 100, 0, 100); width
\* 800, left 0, pointer 200 gives 25
C12_PositionFromPointer ==
  [][/\ updateSliderPosition(200, [left |-> 0, top |-> 0, width |-> 800]) = R(25)
     /\ (last' = "handleMouseMove" /\ isDraggingSlider) =>
          \A x \in SliderXs, r \in SliderRects :
            (r.width > 0 /\ handleMouseMove(<<x, 0>>, r))
              => sliderPosition' = ClampPercent(x, r.left, r.width)
     /\ last' = "handleMouseDown" =>
          \A x \in SliderXs, r \in SliderRects :
            (r.width > 0 /\ handleMouseDown(<<x, 0>>, TRUE, r))
              => sliderPosition' = ClampPercent(x, r.left, r.width)]_vars

\* the divider has been dragged to a quarter of the container
C12_DraggedToQuarter ==
  /\ last = "handleMouseMove"
  /\ isDraggingSlider
  /\ sliderPosition = R(25)

\* C13: the divider-position update is monotonic and idempotent: for a fixed
\* container x1 <= x2 implies position(x1) <= position(x2), and applying the
\* update again, with the pointer and container that gave the current
\* position, gives the same position
C13_IdempotentMonotonic ==
  [][/\ \A r \in SliderRects, x1 \in SliderXs, x2 \in SliderXs :
          x1 <= x2 =>
            Le(updateSliderPosition(x1, r), updateSliderPosition(x2, r))
     /\ (last' = "handleMouseMove" /\ isDraggingSlider) =>
          \A x \in SliderXs, r \in SliderRects :
            (sliderPosition = updateSliderPosition(x, r)
               /\ handleMouseMove(<<x, 0>>, r)) =>
              sliderPosition' = sliderPosition]_vars

\* C14: a divider-position update with a container of width zero gives 0 or
\* 100 for every pointer X, the container's left edge included, never an
\* undefined value
C14_ZeroWidthGivesBound ==
  [][(last' = "handleMouseMove" /\ isDraggingSlider) =>
       \A x \in SliderXs, r \in SliderRects :
         (r.width = 0 /\ handleMouseMove(<<x, 0>>, r)) =>
           sliderPosition' \in {R(0), R(100)}]_vars

\* a scale held between 0.1 and 50
ClampScale(v) ==
  IF Lt(v, <<1, 10>>) THEN <<1, 10>> ELSE IF Lt(R(50), v) THEN R(50) ELSE v

\* one wheel step from scale s in direction dir, and the translate it gives
\* to one axis for the cursor offset c
StepScale(s, dir) == ClampScale(Add(s, Mul(Mul(R(dir), <<1, 10>>), s)))
StepTranslate(c, t, s, ns) == Sub(R(c), Mul(Div(Sub(R(c), t), s), ns))

C16_WheelInEveryMode ==
  [][last' = "handleWheel" =>
       /\ hasOriginal
       /\ UNCHANGED <<sliderPosition, isDraggingSlider, isPanning>>
       /\ \A p \in ZoomPoints, d \in DeltaYs :
            handleWheel(p, d, Rects800) =>
              scale' = StepScale(scale, IF d < 0 THEN 1 ELSE -1)]_vars

\* the wheel has zoomed while a pan was under way
C16_ZoomedWhilePanning ==
  /\ last = "handleWheel"
  /\ wheels > 0
  /\ isPanning
  /\ ~isDraggingSlider
  /\ scale = <<11, 10>>

\* the original is shown and no processed result is there
OriginalOnly == hasOriginal /\ ~hasOptimized

\* C17: with the original loaded and the processed result absent, a
\* pointer-down outside the divider handle enters Panning, and the moves
\* that follow translate the view by the pointer's displacement
C17_OriginalOnlyPans ==
  [][/\ (last' = "handleMouseDown" /\ OriginalOnly
           /\ ~isDraggingSlider /\ ~isPanning) =>
          \A p \in InsidePoints :
            handleMouseDown(p, FALSE, Rects800) =>
              /\ isPanning'
              /\ panStartX' = p[1] /\ panStartY' = p[2]
     /\ (last' = "handleMouseMove" /\ last = "handleMouseDown" /\ OriginalOnly
           /\ ~isDraggingSlider) =>
          \A p \in WindowPoints :
            handleMouseMove(p, Rects800) =>
              /\ isPanning
              /\ translateX' = Add(panStartTranslateX, R(p[1] - panStartX))
              /\ translateY' = Add(panStartTranslateY, R(p[2] - panStartY))]_vars

\* C18: with the original loaded and the processed result absent, a
\* pointer-down or touch-start on the divider handle does not enter
\* DraggingDivider and does not change the reveal position
C18_OriginalOnlyNoDivider ==
  [][(last' \in {"handleMouseDown", "handleTouchStart"} /\ OriginalOnly) =>
       \A p \in ZoomPoints :
         (handleMouseDown(p, TRUE, Rects800) \/ handleTouchStart(TRUE)) =>
           /\ isDraggingSlider' = isDraggingSlider
           /\ sliderPosition' = sliderPosition]_vars

\* C19: while Panning, after every pointer-move the translate is the
\* translate captured at the start of the gesture plus the displacement of the
\* pointer since then, the displacement neither multiplied nor divided by
\* scale, and scale is unchanged
C19_PanFollowsPointer ==
  [][(last' = "handleMouseMove" /\ isPanning /\ ~isDraggingSlider) =>
       \A p \in WindowPoints, r \in Rects :
         handleMouseMove(p, r) =>
           /\ translateX' = Add(panStartTranslateX, R(p[1] - panStartX))
           /\ translateY' = Add(panStartTranslateY, R(p[2] - panStartY))
           /\ scale' = scale
           /\ UNCHANGED panVars]_vars

\* a pan has moved a zoomed view away from where the gesture started
C19_PannedWhileZoomed ==
  /\ last = "handleMouseMove"
  /\ isPanning /\ ~isDraggingSlider
  /\ scale # R(1)
  /\ translateX # panStartTranslateX
  /\ translateY # panStartTranslateY

\* C20: the clip and the transform are independent: wheel zooms and pan
\* moves never change the reveal position, divider-drag moves never change
\* scale, translateX or translateY, and the clip insets of both layers are a
\* function of the reveal position only: no change of the transform that
\* leaves the reveal position alone changes them
C20_ClipAndTransformIndependent ==
  [][/\ last' = "handleWheel" => sliderPosition' = sliderPosition
     /\ (last' = "handleMouseMove" /\ isPanning /\ ~isDraggingSlider) =>
          sliderPosition' = sliderPosition
     /\ (last' = "handleMouseMove" /\ isDraggingSlider) =>
          transformStyle' = transformStyle
     /\ (transformStyle' # transformStyle
           /\ sliderPosition' = sliderPosition) =>
          (clipOriginal' = clipOriginal /\ clipOptimized' = clipOptimized)]_vars

\* a pan has moved the view while the divider stood away from the middle
C20_PannedWithDividerAside ==
  /\ last = "handleMouseMove"
  /\ isPanning /\ ~isDraggingSlider
  /\ translateX # panStartTranslateX
  /\ sliderPosition = R(0)
  /\ clipOriginal = <<R(0), R(100), R(0), R(0)>>

\* C21: whenever the original is present, the processed result is absent
\* and isProcessing is true, the optimized layer shows the "Optimizing..."
\* placeholder and no processed canvas; the placeholder is shown in no state
\* where a processed result exists
C21_PlaceholderWhileFirstProcessing ==
  /\ (originalImageInfo # NoImage /\ optimizationResult = NoImage
        /\ isProcessing) =>
       (showsOptimizing /\ ~showsOptimizedCanvas /\ ~canvasOptimized.bound)
  /\ optimizationResult # NoImage => ~showsOptimizing

\* the original is painted while its first processing is still under way
C21_OriginalPaintedWhileProcessing ==
  /\ isProcessing
  /\ originalImageInfo # NoImage
  /\ optimizationResult = NoImage
  /\ canvasOriginal.img = originalImageInfo

\* a process_image request is issued in this step
ProcessingStarts == \E req \in ProcReqs : procs'[req] > procs[req]

\* C22: when a processing request starts while a processed result exists,
\* the result is not cleared: optimizationResult stays non-null and shown
\* until the new result replaces it (or the image is closed), the "Updating
\* preview..." overlay is shown, and the "Optimizing..." placeholder and the
\* overlay are never shown in the same state
C22_OldResultKeptWhileProcessing ==
  /\ [](~(showsOptimizing /\ showsUpdating))
  /\ [][/\ (ProcessingStarts /\ optimizationResult # NoImage) =>
             /\ optimizationResult' = optimizationResult
             /\ showsUpdating' /\ showsOptimizedCanvas' /\ ~showsOptimizing'
             /\ canvasOptimized'.bound
             /\ canvasOptimized.bound => canvasOptimized' = canvasOptimized
        /\ (optimizationResult # NoImage
              /\ optimizationResult' # optimizationResult) =>
             last' \in {"processImageResolved", "resetStores"}]_vars

\* a load has started processing over the painted result of the one before
C22_UpdatingOverPaintedResult ==
  /\ last = "loadImageResolved"
  /\ showsUpdating
  /\ canvasOptimized.img = optimizationResult

\* the size of the pixel buffer get_processed_image_data answers with
BufferWidth(i, resized) == IF resized THEN ImgWidth(i) \div 2 ELSE ImgWidth(i)
BufferHeight(i, resized) == IF resized THEN ImgHeight(i) \div 2 ELSE ImgHeight(i)

\* C23: after a buffer is painted onto a surface, the surface's backing width
\* and height are the buffer's, and the other surface's backing dimensions
\* are unchanged, for any sequence of paints of differing dimensions
C23_PaintSizesTheSurface ==
  [][/\ (last' = "loadOriginalCanvasResolved" /\ canvasOriginal.bound) =>
          \A i \in Images :
            loadOriginalCanvasResolved(i) =>
              /\ canvasOriginal'.width = ImgWidth(i)
              /\ canvasOriginal'.height = ImgHeight(i)
              /\ canvasOriginal'.img = i
              /\ canvasOptimized' = canvasOptimized
     /\ (last' = "loadProcessedCanvasResolved" /\ canvasOptimized.bound) =>
          \A i \in Images, z \in BOOLEAN :
            loadProcessedCanvasResolved(i, z) =>
              /\ canvasOptimized'.width = BufferWidth(i, z)
              /\ canvasOptimized'.height = BufferHeight(i, z)
              /\ canvasOptimized'.img = i
              /\ canvasOriginal' = canvasOriginal]_vars

\* a second original was painted beside the resized result of the first
C23_OriginalPaintedBesideSmaller ==
  /\ last = "loadOriginalCanvasResolved"
  /\ canvasOriginal.img = 2 /\ canvasOriginal.width = 800
  /\ canvasOptimized.img = 1 /\ canvasOptimized.width = 320

\* the native pixel size of a canvas, and whether pixels were painted on it
NativeSize(canvas) == <<canvas.width, canvas.height>>
Painted(canvas) == canvas.bound /\ canvas.img # NoImage

\* C24: in every state where a surface is painted, its displayed size before
\* the shared transform is its own native pixel size, so that all visual
\* scaling comes from the transform; this holds for the original also after
\* a processed result of different dimensions has been loaded
C24_DisplayedAtNativeSize ==
  /\ Painted(canvasOriginal) => displayedSize = NativeSize(canvasOriginal)
  /\ Painted(canvasOptimized) => displayedSize = NativeSize(canvasOptimized)

\* C25: if fetching a pixel buffer (original or processed) fails, the
\* surface keeps its backing dimensions and content (or stays empty),
\* imageWidth and imageHeight are unchanged, and the transform and the reveal
\* position are unchanged
C25_FetchFailureChangesNothing ==
  [][last' \in {"loadOriginalCanvasRejected", "loadProcessedCanvasRejected"} =>
       /\ \E i \in Images :
            loadOriginalCanvasRejected(i) \/ loadProcessedCanvasRejected(i)
       /\ UNCHANGED <<canvasOriginal, canvasOptimized, imageWidth, imageHeight,
                     sliderPosition, scale, translateX, translateY>>]_vars

\* the fetch for a reloaded original failed over a painted and zoomed view
C25_FailedOverZoomedView ==
  /\ last = "loadOriginalCanvasRejected"
  /\ Painted(canvasOriginal)
  /\ imageWidth = canvasOriginal.width
  /\ scale # R(1)

\* something that should keep the shortcut from opening another dialog
InputSuppressed == showSettings \/ dialogs > 0 \/ isLoading

\* C26: Ctrl+O forwards an openFile intent only when no modal or dialog is
\* suppressing input: while the settings modal is open, or a file dialog or
\* a load is in progress, pressing Ctrl+O forwards nothing
C26_ShortcutSuppressed ==
  [][last' = "handleKeydown" =>
       /\ InputSuppressed => dialogs' = dialogs
       /\ (~InputSuppressed /\ handleKeydown(TRUE, "o")) =>
            dialogs' = dialogs + 1]_vars

\* C27: each call of triggerProcess cancels the pending timer, so at most
\* one timer is pending at any time; a burst of edits each within 400 ms of
\* the one before ends in exactly one invocation of processImage, by the
\* timer of the last edit, 400 ms after it
C27_DebounceOneTimer ==
  /\ [](Cardinality(timers) <= 1)
  /\ [][/\ last' = "triggerProcess" =>
             timers' = {[id |-> debounceTimer', due |-> DebounceDelay]}
        /\ last' = "debounceTimerFired" =>
             /\ timers = {[id |-> debounceTimer, due |-> 0]}
             /\ timers' = {}
             /\ hasOriginal =>
                  \E req \in ProcReqs :
                    /\ ~req.fromLoad
                    /\ procs' = Put(procs, req)]_vars

\* the timer of the third edit of a burst has started the processing
C27_FiredAfterBurst ==
  /\ last = "debounceTimerFired"
  /\ edits = 3
  /\ debounceTimer = 3
  /\ timers = {}
  /\ isProcessing
  /\ Total(procs) = 1

\* C28: at every moment at most one process_image request is in flight,
\* for any interleaving of debounced edits, image loads and completions of
\* requests of any duration
C28_OneProcessInFlight == Total(procs) <= 1

\* C29: whenever a process_image request completes successfully,
\* optimizationResult becomes that request's result, overwriting the value
\* before, whatever the order in which requests were issued or completed
C29_CompletedResultOverwrites ==
  [][last' = "processImageResolved" =>
       \A req \in ProcReqs :
         processImageResolved(req) => optimizationResult' = req.img]_vars

\* the result of the first image has arrived after the second image loaded,
\* and has overwritten the second image's result
C29_OlderResultArrivedLast ==
  /\ last = "processImageResolved"
  /\ originalImageInfo = 2
  /\ optimizationResult = 1
  /\ canvasOptimized.img = 2
  /\ Total(procs) = 0

\* C30: a touch-start on the divider handle puts the mode in
\* DraggingDivider, and the mode is Idle again once that touch has ended
\* with no further input: it is never left stuck in DraggingDivider
C30_TouchEndReturnsToIdle ==
  [][/\ (last' = "handleTouchStart" /\ handleTouchStart(TRUE)) =>
          isDraggingSlider'
     /\ last' = "touchEnd" => (~isDraggingSlider' /\ ~isPanning')]_vars

\* the paths that end in an allowed extension
ImagePaths == {path \in Paths : EndsInImageExt(path)}

\* C31: a drop whose first path ends in an allowed extension hands exactly
\* that path to the panel, whatever the number of dropped paths, and issues
\* no load itself; the step that follows is the panel's reactive block, which
\* issues one load_image request, for that path, and sets droppedFile back to
\* null; and the block does run
C31_DropLoadsOnce ==
  /\ [][/\ last' = "tauriDragDrop" =>
            /\ loads' = loads
            /\ \A paths \in DropLists :
                 (/\ Len(paths) > 0
                  /\ paths[1] \in ImagePaths
                  /\ droppedFile' # paths[1]) => ~tauriDragDrop(paths)
        /\ droppedFile # NoFile =>
             /\ last' = "droppedFileConsumer"
             /\ loads' = Put(loads, droppedFile)
             /\ Total(loads') = Total(loads) + 1
             /\ droppedFile' = NoFile]_vars
  /\ (droppedFile # NoFile) ~> (droppedFile = NoFile)

\* the dropped photo.png has been handed over and its one load is awaited
C31_DroppedPhotoRequested ==
  /\ last = "droppedFileConsumer"
  /\ droppedFile = NoFile
  /\ loads[PathPhotoPNG] = 1
  /\ Total(loads) = 1

\* the handlers that assign isDraggingSlider or isPanning
ModeHandlers == {"handleMouseDown", "handleTouchStart", "handleMouseUp"}

\* C32: isDraggingSlider and isPanning change only in a step of
\* handleMouseDown, handleTouchStart or handleMouseUp: the pointer move, the
\* wheel, the context menu, the keyboard, the drag and drop notifications
\* and the completions of the loads and of the processing leave both as they
\* were; and a pointer move while neither is set leaves the reveal position,
\* the transform, the pan snapshot and everything else the viewer holds as
\* they were
C32_ModeChangesOnlyOnDownAndUp ==
  [][/\ last' \notin ModeHandlers => UNCHANGED modeVars
     /\ (last' = "handleMouseMove" /\ ~isDraggingSlider /\ ~isPanning) =>
          UNCHANGED <<viewVars, modeVars, panVars, pipeVars>>]_vars

\* a load completed in the middle of a pan gesture
C32_LoadedWhilePanning ==
  /\ last = "loadOriginalCanvasResolved"
  /\ isPanning
  /\ ~isDraggingSlider

\* C33: in SpecOrder the request of image 1 was issued before that of image
\* 2, and every later request is issued for image 2, the original since
\* then; so when the result of image 2 is displayed and the last awaited
\* process_image request completes, the result of image 2 is still the one
\* displayed
C33_LatestRequestWins ==
  [][(/\ last' = "processImageResolved"
      /\ Total(procs') = 0
      /\ optimizationResult = 2) => optimizationResult' = 2]_vars

\* C34: in every state a processed result is held only while an original is
\* held, also when the image is closed while process_image is awaited and
\* the answer arrives afterwards
C34_ResultImpliesOriginal ==
  optimizationResult # NoImage => originalImageInfo # NoImage

\* C35: isProcessing is true in every state where a process_image request is
\* awaited, and isLoading is true in every state where a load_image request
\* is awaited
C35_FlagsCoverRequests ==
  /\ Total(procs) > 0 => isProcessing
  /\ Total(loads) > 0 => isLoading

\* C36: no state holds the original of one image together with the result
\* computed from another image
C36_ResultOfTheOriginal ==
  (originalImageInfo # NoImage /\ optimizationResult # NoImage) =>
     optimizationResult = originalImageInfo

\* the translate <<tx, ty>> is the one a pointer move at p gives while
\* Panning, so that such a move changes nothing
RestsAt(p, tx, ty) ==
  /\ tx = Add(panStartTranslateX, R(p[1] - panStartX))
  /\ ty = Add(panStartTranslateY, R(p[2] - panStartY))

\* C37: while Panning with the pointer at p (a pointer move at p changes
\* nothing), after a wheel zoom at p a pointer move at p still changes
\* nothing: the translate the zoom computed is the one the move gives
C37_PanKeepsTheZoom ==
  [][(last' = "handleWheel" /\ isPanning /\ ~isDraggingSlider) =>
       \A p \in InsidePoints, d \in DeltaYs, r \in Rects :
         (handleWheel(p, d, r) /\ RestsAt(p, translateX, translateY)) =>
           RestsAt(p, translateX', translateY')]_vars

\* C38: the step in which load_image fails leaves originalImageInfo and
\* optimizationResult as they were, issues no process_image request and
\* ends with isLoading false; and the step in which the process_image request
\* of a load resolves or fails, which is where a successful load returns,
\* ends with isLoading false too
C38_LoadEndsNotLoading ==
  [][/\ last' = "loadImageRejected" =>
          /\ UNCHANGED <<originalImageInfo, optimizationResult, procs>>
          /\ ~isLoading'
     /\ last' \in {"processImageResolved", "processImageRejected"} =>
          \A req \in ProcReqs :
            (/\ req.fromLoad
             /\ processImageResolved(req) \/ processImageRejected(req)) =>
               ~isLoading']_vars

\* load_image has failed for a file dropped on a processed image
C38_LoadFailedOverResult ==
  /\ last = "loadImageRejected"
  /\ originalImageInfo = 1
  /\ optimizationResult = 1
  /\ ~isLoading
  /\ Total(procs) = 0

\* C39: a zoom in at scale 50 leaves scale, translateX and translateY as
\* they were, wherever the pointer is
C39_ZoomAtBoundIsNoOp ==
  [][last' = "handleWheel" =>
       \A p \in BoundPoints :
         handleWheelAtMaxScale(p, Rects800) =>
           UNCHANGED <<scale, translateX, translateY>>]_vars

====
